---- MODULE Spec2Model ----
(***************************************************************************)
(* Model of the automatic-releases action (src/src/main.ts, files.ts).     *)
(* Text values are sequences of one-character strings, so that the         *)
(* substring, prefix and parsing steps of the code are computed rather     *)
(* than assumed.                                                            *)
(***************************************************************************)
EXTENDS Integers, Sequences, FiniteSets, TLC

(***************************************************************************)
(* Text helpers                                                            *)
(***************************************************************************)
\* JavaScript null, as returned by semverValid for text that does not parse.
NULL == <<"<null>">>

EMPTY == <<>>

DigitSeq == <<"0", "1", "2", "3", "4", "5", "6", "7", "8", "9">>

Digits == {DigitSeq[i] : i \in 1..Len(DigitSeq)}

Letters == {"a", "b", "c", "d", "e", "f", "g", "h", "l", "r", "s", "t", "v"}

\* The characters of the model's alphabet, in UTF-16 code unit order.
CodeUnitOrder ==
  <<"+", "-", ".", "/">> \o DigitSeq
    \o <<"a", "b", "c", "d", "e", "f", "g", "h", "l", "r", "s", "t", "v">>

CharCode(c) == CHOOSE i \in 1..Len(CodeUnitOrder) : CodeUnitOrder[i] = c

DigitVal(c) == (CHOOSE i \in 1..Len(DigitSeq) : DigitSeq[i] = c) - 1

\* String.prototype.substring(n): the text from 0-based index n on.
Substring(s, n) == SubSeq(s, n + 1, Len(s))

StartsWith(s, p) == Len(s) >= Len(p) /\ SubSeq(s, 1, Len(p)) = p

\* 1-based index of the first c in s, 0 when there is none.
IndexOf(s, c) ==
  IF \E i \in 1..Len(s) : s[i] = c
  THEN CHOOSE i \in 1..Len(s) : s[i] = c /\ \A j \in 1..(i - 1) : s[j] # c
  ELSE 0

RECURSIVE Split(_, _)
\* String.prototype.split(c): the pieces of s between occurrences of c.
Split(s, c) ==
  LET i == IndexOf(s, c)
  IN IF i = 0 THEN <<s>>
     ELSE <<SubSeq(s, 1, i - 1)>> \o Split(SubSeq(s, i + 1, Len(s)), c)

RECURSIVE Join(_, _)
\* Array.prototype.join(c).
Join(parts, c) ==
  IF Len(parts) = 0 THEN EMPTY
  ELSE IF Len(parts) = 1 THEN parts[1]
  ELSE parts[1] \o <<c>> \o Join(Tail(parts), c)

RECURSIVE StrToNat(_)
\* Unary plus on a digit string.
StrToNat(s) ==
  IF Len(s) = 0 THEN 0
  ELSE StrToNat(SubSeq(s, 1, Len(s) - 1)) * 10 + DigitVal(s[Len(s)])

RECURSIVE NatToStr(_)
\* Decimal rendering of a number in a template string.
NatToStr(n) ==
  IF n < 10 THEN <<DigitSeq[n + 1]>>
  ELSE NatToStr(n \div 10) \o <<DigitSeq[(n % 10) + 1]>>

RECURSIVE StrLess(_, _)
\* a < b on strings: comparison by code units, a proper prefix being smaller.
StrLess(a, b) ==
  IF Len(b) = 0 THEN FALSE
  ELSE IF Len(a) = 0 THEN TRUE
  ELSE IF a[1] # b[1] THEN CharCode(a[1]) < CharCode(b[1])
  ELSE StrLess(Tail(a), Tail(b))

(***************************************************************************)
(* The semver package: valid, rcompare, lt (strict mode)                   *)
(***************************************************************************)
IsDigits(s) == Len(s) > 0 /\ \A i \in 1..Len(s) : s[i] \in Digits

\* NUMERICIDENTIFIER: 0|[1-9]\d*
IsNumericId(s) == IsDigits(s) /\ (Len(s) = 1 \/ s[1] # "0")

\* BUILDIDENTIFIER: [0-9A-Za-z-]+
IsBuildId(s) == Len(s) > 0 /\ \A i \in 1..Len(s) : s[i] \in Digits \cup Letters \cup {"-"}

\* PRERELEASEIDENTIFIER: a numeric identifier, or \d*[a-zA-Z-][a-zA-Z0-9-]*
IsPrereleaseId(s) == IsNumericId(s) \/ (IsBuildId(s) /\ ~IsDigits(s))

NoVersion == [ok |-> FALSE, major |-> 0, minor |-> 0, patch |-> 0, prerelease |-> <<>>]

\* new SemVer(text): the FULL pattern ^v?M.m.p(-prerelease)?(\+build)?$
SemVerParse(text) ==
  LET noV == IF Len(text) > 0 /\ text[1] = "v" THEN Tail(text) ELSE text
      plus == IndexOf(noV, "+")
      hasBuild == plus > 0
      build == IF hasBuild THEN SubSeq(noV, plus + 1, Len(noV)) ELSE EMPTY
      core == IF hasBuild THEN SubSeq(noV, 1, plus - 1) ELSE noV
      dash == IndexOf(core, "-")
      hasPre == dash > 0
      pre == IF hasPre THEN SubSeq(core, dash + 1, Len(core)) ELSE EMPTY
      main == IF hasPre THEN SubSeq(core, 1, dash - 1) ELSE core
      nums == Split(main, ".")
      preIds == IF hasPre THEN Split(pre, ".") ELSE <<>>
      buildIds == IF hasBuild THEN Split(build, ".") ELSE <<>>
      matches == /\ text # NULL
                 /\ Len(nums) = 3
                 /\ \A i \in 1..3 : IsNumericId(nums[i])
                 /\ \A i \in 1..Len(preIds) : IsPrereleaseId(preIds[i])
                 /\ \A i \in 1..Len(buildIds) : IsBuildId(buildIds[i])
  IN IF matches
     THEN [ok |-> TRUE, major |-> StrToNat(nums[1]), minor |-> StrToNat(nums[2]),
           patch |-> StrToNat(nums[3]), prerelease |-> preIds]
     ELSE NoVersion

\* SemVer.format(): the version text, without a leading v and without build.
SemVerFormat(v) ==
  NatToStr(v.major) \o <<".">> \o NatToStr(v.minor) \o <<".">> \o NatToStr(v.patch)
    \o (IF Len(v.prerelease) > 0 THEN <<"-">> \o Join(v.prerelease, ".") ELSE EMPTY)

\* semver/functions/valid: the normalised version text, or null.
semverValid(text) ==
  LET v == SemVerParse(text) IN IF v.ok THEN SemVerFormat(v) ELSE NULL

\* compareIdentifiers: numbers before text, numbers by value, text by code unit.
CompareIdentifiers(a, b) ==
  LET anum == IsDigits(a)
      bnum == IsDigits(b)
  IN IF anum /\ bnum
     THEN (IF StrToNat(a) = StrToNat(b) THEN 0 ELSE IF StrToNat(a) < StrToNat(b) THEN -1 ELSE 1)
     ELSE IF a = b THEN 0
     ELSE IF anum /\ ~bnum THEN -1
     ELSE IF bnum /\ ~anum THEN 1
     ELSE IF StrLess(a, b) THEN -1 ELSE 1

CompareNat(a, b) == IF a = b THEN 0 ELSE IF a < b THEN -1 ELSE 1

\* SemVer.compareMain
CompareMain(x, y) ==
  IF CompareNat(x.major, y.major) # 0 THEN CompareNat(x.major, y.major)
  ELSE IF CompareNat(x.minor, y.minor) # 0 THEN CompareNat(x.minor, y.minor)
  ELSE CompareNat(x.patch, y.patch)

RECURSIVE ComparePreFrom(_, _, _)
ComparePreFrom(p, q, i) ==
  IF i > Len(p) /\ i > Len(q) THEN 0
  ELSE IF i > Len(q) THEN 1
  ELSE IF i > Len(p) THEN -1
  ELSE IF CompareIdentifiers(p[i], q[i]) = 0 THEN ComparePreFrom(p, q, i + 1)
  ELSE CompareIdentifiers(p[i], q[i])

\* SemVer.comparePre: a version with a prerelease precedes the same version without.
ComparePre(x, y) ==
  IF Len(x.prerelease) > 0 /\ Len(y.prerelease) = 0 THEN -1
  ELSE IF Len(x.prerelease) = 0 /\ Len(y.prerelease) > 0 THEN 1
  ELSE IF Len(x.prerelease) = 0 /\ Len(y.prerelease) = 0 THEN 0
  ELSE ComparePreFrom(x.prerelease, y.prerelease, 1)

\* semver compare(a, b) on version texts.
semverCompare(a, b) ==
  LET x == SemVerParse(a)
      y == SemVerParse(b)
  IN IF CompareMain(x, y) # 0 THEN CompareMain(x, y) ELSE ComparePre(x, y)

\* semver/functions/rcompare
semverRcompare(a, b) == semverCompare(b, a)

\* semver/functions/lt
semverLt(a, b) == semverCompare(a, b) < 0

(***************************************************************************)
(* Tag names, refs and the other texts the runs are made of                *)
(***************************************************************************)
V100 == <<"v", "1", ".", "0", ".", "0">>

P100 == <<"1", ".", "0", ".", "0">>

V100b == <<"v", "1", ".", "0", ".", "0", "+", "b">>

V101 == <<"v", "1", ".", "0", ".", "1">>

V110rc1 == <<"v", "1", ".", "1", ".", "0", "-", "r", "c", ".", "1">>

V110 == <<"v", "1", ".", "1", ".", "0">>

V190 == <<"v", "1", ".", "9", ".", "0">>

V1100 == <<"v", "1", ".", "1", "0", ".", "0">>

V0101 == <<"v", "0", "1", ".", "0", ".", "1">>

LATEST == <<"l", "a", "t", "e", "s", "t">>

\* Every tag name of the model: valid versions (with and without the v,
\* with a prerelease, with build metadata, with a two-digit component) and
\* names that are no versions.
TagNames == {V100, P100, V100b, V101, V110rc1, V110, V190, V1100, V0101, LATEST}

REFS_TAGS == <<"r", "e", "f", "s", "/", "t", "a", "g", "s", "/">>

REFS == <<"r", "e", "f", "s", "/">>

TAGS == <<"t", "a", "g", "s", "/">>

BRANCH_REF == <<"r", "e", "f", "s", "/", "h", "e", "a", "d", "s", "/", "a">>

HEAD == <<"H", "E", "A", "D">>

TITLE == <<"t", "-", "1">>

\* utils.parseGitTag: the tag of refs/tags/<tag> or tags/<tag>, '' otherwise.
parseGitTag(inputRef) ==
  LET rest == IF StartsWith(inputRef, REFS) THEN Substring(inputRef, Len(REFS)) ELSE inputRef
  IN IF StartsWith(rest, TAGS) THEN Substring(rest, Len(TAGS)) ELSE EMPTY

(***************************************************************************)
(* searchForPreviousReleaseTag                                             *)
(***************************************************************************)
\* tl.map(...): each listed tag with its normalised version text.
WithSemverTag(tl) == [i \in 1..Len(tl) |-> [name |-> tl[i], semverTag |-> semverValid(tl[i])]]

\* .filter((tag) => tag.semverTag !== null)
FilterValid(tagList) == SelectSeq(tagList, LAMBDA tag : tag.semverTag # NULL)

RECURSIVE InsertSorted(_, _)
InsertSorted(sorted, tag) ==
  IF Len(sorted) = 0 THEN <<tag>>
  ELSE IF semverRcompare(tag.semverTag, Head(sorted).semverTag) < 0
       THEN <<tag>> \o sorted
       ELSE <<Head(sorted)>> \o InsertSorted(Tail(sorted), tag)

\* The listing left in the order the platform gave it.
SortTagsOmitted(tagList) == tagList

RECURSIVE SortTags(_)
\* .sort((a, b) => semverRcompare(a.semverTag, b.semverTag)): a stable sort,
\* greatest version first.
SortTags(tagList) ==
  IF Len(tagList) = 0 THEN <<>>
  ELSE InsertSorted(SortTags(SubSeq(tagList, 1, Len(tagList) - 1)), tagList[Len(tagList)])

RECURSIVE FirstLower(_, _)
\* The for loop: the name of the first tag below the current release tag.
FirstLower(tagList, currentReleaseTag) ==
  IF Len(tagList) = 0 THEN EMPTY
  ELSE IF semverLt(Head(tagList).semverTag, currentReleaseTag) THEN Head(tagList).name
  ELSE FirstLower(Tail(tagList), currentReleaseTag)

\* The value searchForPreviousReleaseTag returns once the tags are listed.
PreviousOf(tl, currentReleaseTag) ==
  FirstLower(SortTags(FilterValid(WithSemverTag(tl))), currentReleaseTag)

(***************************************************************************)
(* Bounds                                                                  *)
(***************************************************************************)
\* Longest tag listing the previous-tag search is exercised on.
MaxTags == 3

\* Longest commit list the comparison returns.
MaxCommits == 3

(***************************************************************************)
(* The hosting platform and the file system, as the run sees them          *)
(***************************************************************************)
\* context.sha, the commit the run releases.
SHA == "sha-head"

\* The commit every tag that exists before the run points at.
OLD_COMMIT == "sha-old"

\* The sha of the annotated tag object createTag answers with.
TAG_OBJECT == "sha-tagobject"

NONE == "none"

\* The release a repository holds before the run, for tag t.
PriorRelease(t) ==
  [id |-> "r0", tag_name |-> t, name |-> t, draft |-> FALSE, prerelease |-> FALSE,
   body |-> <<>>, upload_url |-> "upload/r0"]

\* The commits the platform may answer a comparison with, oldest first.
History ==
  << [sha |-> "s1", message |-> <<"feat:", "one">>],
     [sha |-> "s2", message |-> <<"Merge", "pull", "request", "#2", "from", "b">>],
     [sha |-> "s3", message |-> <<"fix:", "three">>] >>

\* listPullRequestsAssociatedWithCommit: the pull requests of a commit.
PullsOf(sha) == IF sha = "s1" THEN <<[number |-> 1, html_url |-> "pull/1"]>> ELSE <<>>

PathA == <<"d", "/", "a">>

PathB == <<"d", "/", "b">>

GlobAll == <<"d", "/", "*">>

GlobA == <<"d", "/", "a">>

GlobB == <<"d", "/", "b">>

GlobNothing == <<"e">>

\* globby(fileGlob) on the run's working directory.
Globby(fileGlob) ==
  IF fileGlob = GlobAll THEN <<PathA, PathB>>
  ELSE IF fileGlob = GlobA THEN <<PathA>>
  ELSE IF fileGlob = GlobB THEN <<PathB>>
  ELSE <<>>

\* The tag a ref of the form tags/<tag> or refs/tags/<tag> names on the
\* platform; NULL for any other text.
PlatformTagOf(ref) ==
  LET short == IF StartsWith(ref, REFS) THEN Substring(ref, Len(REFS)) ELSE ref
  IN IF StartsWith(short, TAGS) THEN Substring(short, Len(TAGS)) ELSE NULL

(***************************************************************************)
(* State                                                                   *)
(***************************************************************************)
VARIABLES
  inputs,             \* the action's inputs as given in the workflow
  context,            \* the triggering event: ref and sha
  tagListing,         \* platform: the repository's tags, in listing order
  refs,               \* platform: tag name -> object the tag ref points at
  tagObjects,         \* platform: annotated tag objects
  releases,           \* platform: the releases
  assets,             \* platform: uploaded assets, in upload order
  pc,                 \* where main() is
  args,               \* getAndValidateArgs()
  releaseTag,
  previousReleaseTag,
  previousReleaseRef,
  commits,            \* commitsSinceRelease
  idx,                \* position of the loop getChangelog / upload is in
  parsedCommits,
  changelog,
  artifactPaths,
  checksums,
  diagnostics,        \* core.error lines
  refInfoSha,         \* refInfo.sha in createReleaseTag
  foundReleaseId,     \* resp.data.id in deletePreviousGitHubRelease
  releaseUploadUrl,
  calls,              \* the platform calls issued, in order
  error,              \* the error being thrown
  failed,             \* core.setFailed messages
  rethrown,           \* main() rejected
  outputs,            \* core.setOutput
  exported            \* core.exportVariable

platform == <<tagListing, refs, tagObjects, releases, assets>>

locals == <<args, releaseTag, previousReleaseTag, previousReleaseRef, commits, idx,
            parsedCommits, changelog, artifactPaths, checksums, diagnostics,
            refInfoSha, foundReleaseId, releaseUploadUrl>>

reported == <<failed, rethrown, outputs, exported>>

vars == <<inputs, context, platform, pc, locals, calls, error, reported>>

NoArgs ==
  [repoToken |-> EMPTY, automaticReleaseTag |-> EMPTY, isTagStatic |-> FALSE,
   draftRelease |-> FALSE, preRelease |-> FALSE, releaseTitle |-> EMPTY,
   tagAnnotation |-> EMPTY, files |-> <<>>]

NoOutputs == [automatic_releases_tag |-> NULL, upload_url |-> NONE]

\* The state main() starts in, for given inputs, event and repository.
Start(in, ctx, listing, rels) ==
  /\ inputs = in
  /\ context = ctx
  /\ tagListing = listing
  /\ refs = [t \in TagNames |-> IF \E i \in 1..Len(listing) : listing[i] = t
                                THEN OLD_COMMIT ELSE NONE]
  /\ tagObjects = {}
  /\ releases = rels
  /\ assets = <<>>
  /\ pc = "getArgs"
  /\ args = NoArgs
  /\ releaseTag = EMPTY
  /\ previousReleaseTag = EMPTY
  /\ previousReleaseRef = EMPTY
  /\ commits = <<>>
  /\ idx = 0
  /\ parsedCommits = <<>>
  /\ changelog = <<>>
  /\ artifactPaths = <<>>
  /\ checksums = <<>>
  /\ diagnostics = <<>>
  /\ refInfoSha = NONE
  /\ foundReleaseId = NONE
  /\ releaseUploadUrl = NONE
  /\ calls = <<>>
  /\ error = NONE
  /\ failed = <<>>
  /\ rethrown = FALSE
  /\ outputs = NoOutputs
  /\ exported = NULL

\* Sequences without repetition of at most n elements of S.
RECURSIVE ListsUpTo(_, _)
ListsUpTo(S, n) ==
  IF n = 0 THEN {<<>>}
  ELSE LET shorter == ListsUpTo(S, n - 1)
       IN shorter \cup {Append(l, x) : l \in shorter, x \in S}

Distinct(l) == \A i, j \in 1..Len(l) : i # j => l[i] # l[j]

\* The inputs of the runs of Spec.
RunInputs ==
  [repoToken : {EMPTY, <<"t">>},
   automaticReleaseTag : {EMPTY, LATEST, V110},
   isTagStatic : BOOLEAN,
   draftRelease : BOOLEAN,
   preRelease : BOOLEAN,
   releaseTitle : {EMPTY, TITLE},
   tagAnnotation : {EMPTY},
   files : {<<>>, <<GlobA, GlobNothing, GlobAll>>}]

RunContexts == [ref : {BRANCH_REF, REFS_TAGS \o V110}, sha : {SHA}]

\* The repositories of the runs of Spec: their tags ...
RunListings == {<<>>, <<V110>>, <<LATEST, V100>>, <<V110, V100, V101>>}

\* ... and their releases.
RunReleases == {{}, {PriorRelease(LATEST)}, {PriorRelease(V110)}}

Init ==
  \E in \in RunInputs, ctx \in RunContexts, listing \in RunListings, rels \in RunReleases :
    /\ in.repoToken = EMPTY => in = [NoArgs EXCEPT !.files = in.files]
    /\ Start(in, ctx, listing, rels)

\* The runs of SpecSearch: an explicit release tag, dynamic resolution, any
\* listing of at most MaxTags tags.
InitSearch ==
  \E c \in TagNames, listing \in {l \in ListsUpTo(TagNames, MaxTags) : Distinct(l)} :
    Start([NoArgs EXCEPT !.repoToken = <<"t">>, !.automaticReleaseTag = c],
          [ref |-> BRANCH_REF, sha |-> SHA], listing, {})

(***************************************************************************)
(* main(): the steps of a run                                              *)
(***************************************************************************)
\* throw inside main()'s try block.
Throw(message) ==
  /\ pc' = "catch"
  /\ error' = message

\* The message of the error a failed platform call throws.
CallError(op) == op \o " failed"

E_REPO_TOKEN == "Input required and not supplied: repo_token"

E_NO_TAG == "The parameter automatic_release_tag was not set and this does not appear to be a GitHub tag event."

E_NOT_SEMVER == "Cannot find previous release tag because the tag does not appear to conform to semantic versioning."

E_READ == "ENOENT: no such file or directory"

\* The answers of the platform: the call succeeded, what it names does not
\* exist, what it creates exists already, or any other failure.
OK == "ok"

NOT_FOUND == "not_found"

EXISTS == "exists"

FAILURE == "error"

\* A platform call is issued and answered. target is the release the call
\* names, NONE for a call that names none.
Call(op, status, target) ==
  calls' = Append(calls, [op |-> op, status |-> status, target |-> target])

\* The answer to a call that either succeeds or fails.
Answer(ok) == IF ok THEN OK ELSE FAILURE

\* getAndValidateArgs: repo_token is required.
GetArgs ==
  /\ pc = "getArgs"
  /\ IF inputs.repoToken = EMPTY
     THEN /\ Throw(E_REPO_TOKEN)
          /\ UNCHANGED args
     ELSE /\ args' = inputs
          /\ pc' = "releaseTag"
          /\ UNCHANGED error
  /\ UNCHANGED <<inputs, context, platform, releaseTag, previousReleaseTag,
                 previousReleaseRef, commits, idx, parsedCommits, changelog,
                 artifactPaths, checksums, diagnostics, refInfoSha, foundReleaseId,
                 releaseUploadUrl, calls, reported>>

\* The tag of the triggering ref preferred to the explicit tag.
ReleaseTagOfRefFirst(a, ctx) ==
  IF parseGitTag(ctx.ref) # EMPTY THEN parseGitTag(ctx.ref) ELSE a.automaticReleaseTag

\* main.ts line 281: the explicit tag, or the tag of the triggering ref.
ReleaseTagOf(a, ctx) ==
  IF a.automaticReleaseTag # EMPTY THEN a.automaticReleaseTag ELSE parseGitTag(ctx.ref)

\* Any tag is let through to the search.
ConformsToSemverUnchecked(currentReleaseTag) == TRUE

\* Lines 117-118: whether the search for the previous tag can go on.
ConformsToSemver(currentReleaseTag) == semverValid(currentReleaseTag) # NULL

\* The previous release tag searched among the listed tags in every run, a
\* static tag or not.
DetermineReleaseTagsBySearch ==
  /\ pc = "releaseTag"
  /\ releaseTag' = ReleaseTagOf(args, context)
  /\ IF releaseTag' = EMPTY
     THEN /\ Throw(E_NO_TAG)
          /\ UNCHANGED previousReleaseTag
     ELSE IF ~ConformsToSemver(releaseTag')
     THEN /\ Throw(E_NOT_SEMVER)
          /\ UNCHANGED previousReleaseTag
     ELSE /\ pc' = "listTags"
          /\ UNCHANGED <<error, previousReleaseTag>>
  /\ UNCHANGED <<inputs, context, platform, args, previousReleaseRef, commits, idx,
                 parsedCommits, changelog, artifactPaths, checksums, diagnostics,
                 refInfoSha, foundReleaseId, releaseUploadUrl, calls, reported>>

\* Lines 280-294: the release tag, then the previous release tag: the explicit
\* tag itself when the tag is static, otherwise searchForPreviousReleaseTag
\* up to its first await.
DetermineReleaseTags ==
  /\ pc = "releaseTag"
  /\ releaseTag' = ReleaseTagOf(args, context)
  /\ IF releaseTag' = EMPTY
     THEN /\ Throw(E_NO_TAG)
          /\ UNCHANGED previousReleaseTag
     ELSE IF args.isTagStatic
     THEN /\ previousReleaseTag' = args.automaticReleaseTag
          /\ pc' = "getRef"
          /\ UNCHANGED error
     ELSE IF ~ConformsToSemver(releaseTag')
     THEN /\ Throw(E_NOT_SEMVER)
          /\ UNCHANGED previousReleaseTag
     ELSE /\ pc' = "listTags"
          /\ UNCHANGED <<error, previousReleaseTag>>
  /\ UNCHANGED <<inputs, context, platform, args, previousReleaseRef, commits, idx,
                 parsedCommits, changelog, artifactPaths, checksums, diagnostics,
                 refInfoSha, foundReleaseId, releaseUploadUrl, calls, reported>>

\* Lines 124-147: the tags are listed, and the previous tag is found among them.
ListTags ==
  /\ pc = "listTags"
  /\ \E ok \in BOOLEAN :
       /\ Call("listTags", Answer(ok), NONE)
       /\ IF ok
          THEN /\ previousReleaseTag' = PreviousOf(tagListing, releaseTag)
               /\ pc' = "getRef"
               /\ UNCHANGED error
          ELSE /\ Throw(CallError("listTags"))
               /\ UNCHANGED previousReleaseTag
  /\ UNCHANGED <<inputs, context, platform, args, releaseTag, previousReleaseRef,
                 commits, idx, parsedCommits, changelog, artifactPaths, checksums,
                 diagnostics, refInfoSha, foundReleaseId, releaseUploadUrl, reported>>

\* A catch block that undoes the tag of the run before it reports.
CatchAndRollBack ==
  /\ pc = "catch"
  /\ failed' = Append(failed, error)
  /\ rethrown' = TRUE
  /\ pc' = "failed"
  /\ refs' = [t \in TagNames |-> IF refs[t] = TAG_OBJECT THEN NONE ELSE refs[t]]
  /\ UNCHANGED <<inputs, context, tagListing, tagObjects, releases, assets, locals,
                 calls, error, outputs, exported>>

\* Lines 342-345: the failure is reported and the error is thrown again.
Catch ==
  /\ pc = "catch"
  /\ failed' = Append(failed, error)
  /\ rethrown' = TRUE
  /\ pc' = "failed"
  /\ UNCHANGED <<inputs, context, platform, locals, calls, error, outputs, exported>>

(***************************************************************************)
(* getCommitsSinceRelease                                                  *)
(***************************************************************************)
\* Line 300: the ref the previous release is looked up under.
PreviousTagRef(previousTag) == TAGS \o previousTag

\* Whether the platform holds the ref. A lookup of tags/ with no tag name
\* matches by prefix: with no tag in the repository it finds nothing, and
\* with one it is left open whether it answers.
RefFound(ref) ==
  LET t == PlatformTagOf(ref)
  IN IF t = EMPTY
     THEN IF \E x \in TagNames : refs[x] # NONE THEN BOOLEAN ELSE {FALSE}
     ELSE IF t \in TagNames /\ refs[t] # NONE THEN {TRUE} ELSE {FALSE}

\* The ref lookup outside a try block: its failure ends the run.
GetRefUnguarded ==
  /\ pc = "getRef"
  /\ \E found \in RefFound(PreviousTagRef(previousReleaseTag)), answered \in BOOLEAN :
       /\ Call("getRef", IF ~answered THEN FAILURE ELSE IF found THEN OK ELSE NOT_FOUND, NONE)
       /\ IF found /\ answered
          THEN /\ previousReleaseRef' = parseGitTag(PreviousTagRef(previousReleaseTag))
               /\ pc' = "compareCommits"
               /\ UNCHANGED error
          ELSE /\ Throw(CallError("getRef"))
               /\ UNCHANGED previousReleaseRef
  /\ UNCHANGED <<inputs, context, platform, args, releaseTag, previousReleaseTag,
                 commits, idx, parsedCommits, changelog, artifactPaths, checksums,
                 diagnostics, refInfoSha, foundReleaseId, releaseUploadUrl,
                 reported>>

\* Lines 159-169: the base of the comparison, the previous tag when its ref is
\* found and HEAD when the lookup fails.
GetRef ==
  /\ pc = "getRef"
  /\ \E found \in RefFound(PreviousTagRef(previousReleaseTag)), answered \in BOOLEAN :
       /\ Call("getRef", IF ~answered THEN FAILURE ELSE IF found THEN OK ELSE NOT_FOUND, NONE)
       /\ previousReleaseRef' = IF found /\ answered
                                THEN parseGitTag(PreviousTagRef(previousReleaseTag))
                                ELSE HEAD
  /\ pc' = "compareCommits"
  /\ UNCHANGED <<inputs, context, platform, args, releaseTag, previousReleaseTag,
                 commits, idx, parsedCommits, changelog, artifactPaths, checksums,
                 diagnostics, refInfoSha, foundReleaseId, releaseUploadUrl, error,
                 reported>>

\* The comparison outside a try block: its failure ends the run.
CompareCommitsUnguarded ==
  /\ pc = "compareCommits"
  /\ \E ok \in BOOLEAN, n \in 0..MaxCommits :
       /\ Call("compareCommits", Answer(ok), NONE)
       /\ n <= Len(History)
       /\ ~ok => n = 0
       /\ commits' = IF ok THEN SubSeq(History, 1, n) ELSE <<>>
       /\ IF ok THEN pc' = "getChangelog" /\ UNCHANGED error
                ELSE Throw(CallError("compareCommits"))
  /\ idx' = 1
  /\ UNCHANGED <<inputs, context, platform, args, releaseTag, previousReleaseTag,
                 previousReleaseRef, parsedCommits, changelog, artifactPaths,
                 checksums, diagnostics, refInfoSha, foundReleaseId,
                 releaseUploadUrl, reported>>

\* Lines 171-194: the commits of the comparison, none when the call fails.
CompareCommits ==
  /\ pc = "compareCommits"
  /\ \E ok \in BOOLEAN, n \in 0..MaxCommits :
       /\ Call("compareCommits", Answer(ok), NONE)
       /\ n <= Len(History)
       /\ ~ok => n = 0
       /\ commits' = IF ok THEN SubSeq(History, 1, n) ELSE <<>>
  /\ idx' = 1
  /\ pc' = "getChangelog"
  /\ UNCHANGED <<inputs, context, platform, args, releaseTag, previousReleaseTag,
                 previousReleaseRef, parsedCommits, changelog, artifactPaths,
                 checksums, diagnostics, refInfoSha, foundReleaseId,
                 releaseUploadUrl, error, reported>>

(***************************************************************************)
(* getChangelog                                                            *)
(***************************************************************************)
\* conventional-commits-parser with the merge pattern of the changelog
\* options: the merge field of a header "Merge pull request #n from source".
IsMergeCommit(message) ==
  /\ Len(message) >= 5
  /\ SubSeq(message, 1, 3) = <<"Merge", "pull", "request">>
  /\ message[5] = "from"

\* Lines 227-243: the parsed commit with its pull requests.
ParsedCommit(commit, pulls) ==
  [header |-> commit.message,
   extra |-> [commit |-> commit,
              pullRequests |-> [k \in 1..Len(pulls) |->
                                  [number |-> pulls[k].number, url |-> pulls[k].html_url]]]]

\* One turn of the loop without the test of line 222: a merge commit is
\* pushed like any other.
ListPullsKeepMerges ==
  /\ pc = "getChangelog"
  /\ idx <= Len(commits)
  /\ \E ok \in BOOLEAN :
       /\ Call("listPullRequestsAssociatedWithCommit", Answer(ok), NONE)
       /\ IF ok
          THEN /\ parsedCommits' =
                    Append(parsedCommits,
                           ParsedCommit(commits[idx], PullsOf(commits[idx].sha)))
               /\ idx' = idx + 1
               /\ UNCHANGED <<pc, error>>
          ELSE /\ Throw(CallError("listPullRequestsAssociatedWithCommit"))
               /\ UNCHANGED <<parsedCommits, idx>>
  /\ UNCHANGED <<inputs, context, platform, args, releaseTag, previousReleaseTag,
                 previousReleaseRef, commits, changelog, artifactPaths, checksums,
                 diagnostics, refInfoSha, foundReleaseId, releaseUploadUrl, reported>>

\* Lines 206-247: one turn of the loop, for the commit at idx.
ListPulls ==
  /\ pc = "getChangelog"
  /\ idx <= Len(commits)
  /\ \E ok \in BOOLEAN :
       /\ Call("listPullRequestsAssociatedWithCommit", Answer(ok), NONE)
       /\ IF ok
          THEN /\ parsedCommits' =
                    IF IsMergeCommit(commits[idx].message) THEN parsedCommits
                    ELSE Append(parsedCommits,
                                ParsedCommit(commits[idx], PullsOf(commits[idx].sha)))
               /\ idx' = idx + 1
               /\ UNCHANGED <<pc, error>>
          ELSE /\ Throw(CallError("listPullRequestsAssociatedWithCommit"))
               /\ UNCHANGED <<parsedCommits, idx>>
  /\ UNCHANGED <<inputs, context, platform, args, releaseTag, previousReleaseTag,
                 previousReleaseRef, commits, changelog, artifactPaths, checksums,
                 diagnostics, refInfoSha, foundReleaseId, releaseUploadUrl, reported>>

RECURSIVE ChangelogLines(_)
\* utils.generateChangelogFromParsedCommits: one line for each parsed commit.
ChangelogLines(parsed) ==
  IF Len(parsed) = 0 THEN <<>>
  ELSE <<"- ">> \o Head(parsed).header \o <<" ", Head(parsed).extra.commit.sha, "\n">>
         \o ChangelogLines(Tail(parsed))

\* utils.appendFullChangelogLink: the comparison link after the changelog.
appendFullChangelogLink(text, previousTag, tag) ==
  IF previousTag = EMPTY THEN text
  ELSE text \o <<"**Full Changelog**: compare/">> \o previousTag \o <<"...">> \o tag

\* Lines 249-254 and 305-310: the changelog of the parsed commits, with its link.
RenderChangelog ==
  /\ pc = "getChangelog"
  /\ idx > Len(commits)
  /\ changelog' = appendFullChangelogLink(ChangelogLines(parsedCommits),
                                          previousReleaseTag, releaseTag)
  /\ pc' = "getPaths"
  /\ UNCHANGED <<inputs, context, platform, args, releaseTag, previousReleaseTag,
                 previousReleaseRef, commits, idx, parsedCommits, artifactPaths,
                 checksums, diagnostics, refInfoSha, foundReleaseId,
                 releaseUploadUrl, calls, error, reported>>

(***************************************************************************)
(* files.ts: getPaths and getChecksums                                     *)
(***************************************************************************)
\* The list spread into the next as it is, a path twice where two globs match it.
DedupOmitted(list) == list

RECURSIVE Dedup(_)
\* [...new Set(list)]: the first occurrence of each element, in order.
Dedup(list) ==
  IF Len(list) = 0 THEN <<>>
  ELSE LET front == Dedup(SubSeq(list, 1, Len(list) - 1))
           last == list[Len(list)]
       IN IF \E k \in 1..Len(front) : front[k] = last THEN front ELSE Append(front, last)

RECURSIVE PathsOf(_)
\* The paths after the loop over the globs.
PathsOf(files) ==
  IF Len(files) = 0 THEN <<>>
  ELSE LET paths == PathsOf(SubSeq(files, 1, Len(files) - 1))
           gpaths == Globby(files[Len(files)])
       IN IF Len(gpaths) = 0 THEN paths ELSE Dedup(paths \o gpaths)

\* The core.error lines of the loop: one for each glob that matches nothing.
NoMatchDiagnostics(files) == SelectSeq(files, LAMBDA g : Len(Globby(g)) = 0)

getPaths ==
  /\ pc = "getPaths"
  /\ artifactPaths' = PathsOf(args.files)
  /\ diagnostics' = NoMatchDiagnostics(args.files)
  /\ pc' = "getChecksums"
  /\ UNCHANGED <<inputs, context, platform, args, releaseTag, previousReleaseTag,
                 previousReleaseRef, commits, idx, parsedCommits, changelog,
                 checksums, refInfoSha, foundReleaseId, releaseUploadUrl, calls,
                 error, reported>>

\* path.basename: the text after the last separator.
RECURSIVE Basename(_)
Basename(path) ==
  LET i == IndexOf(path, "/")
  IN IF i = 0 THEN path ELSE Basename(SubSeq(path, i + 1, Len(path)))

\* The content of the files of the working directory.
ContentOf(path) == "content-x"

\* sha256 of a content, in hex.
Sha256Hex(content) == "sha256(" \o content \o ")"

RECURSIVE ChecksumLines(_)
\* Lines 37-41: "<checksum>  <basename>\n" for each path.
ChecksumLines(paths) ==
  IF Len(paths) = 0 THEN <<>>
  ELSE <<Sha256Hex(ContentOf(Head(paths))), "  ">> \o Basename(Head(paths)) \o <<"\n">>
         \o ChecksumLines(Tail(paths))

\* The line of three backquotes that opens and closes a fenced block.
FENCE == "<fence>"

\* Lines 30-46: the markdown getChecksums returns when every file is read.
ChecksumsOf(paths) ==
  IF Len(paths) < 0 THEN <<>>
  ELSE <<"## Checksums", "\n", "sha256", "\n", FENCE, "\n">> \o ChecksumLines(paths) \o <<FENCE>>

\* The tag is created and the prior release deleted in every run.
HasExplicitTagAlways(a) == TRUE

\* Line 314: whether the tag is created and the prior release deleted.
HasExplicitTag(a) == a.automaticReleaseTag # EMPTY

\* The tag object created before the files are read for their checksums.
getChecksumsAfterCreateTag ==
  /\ pc = "getChecksums"
  /\ IF HasExplicitTag(args)
     THEN /\ Call("createTag", OK, NONE)
          /\ tagObjects' = tagObjects \cup
               {[sha |-> TAG_OBJECT, tag |-> args.automaticReleaseTag,
                 message |-> args.tagAnnotation, object |-> context.sha,
                 type |-> "commit"]}
     ELSE UNCHANGED <<calls, tagObjects>>
  /\ \E readable \in BOOLEAN :
       IF readable \/ Len(artifactPaths) = 0
       THEN /\ checksums' = ChecksumsOf(artifactPaths)
            /\ pc' = IF HasExplicitTag(args) THEN "createTag" ELSE "createRelease"
            /\ UNCHANGED error
       ELSE /\ Throw(E_READ)
            /\ UNCHANGED checksums
  /\ UNCHANGED <<inputs, context, tagListing, refs, releases, assets, args, releaseTag,
                 previousReleaseTag, previousReleaseRef, commits, idx, parsedCommits,
                 changelog, artifactPaths, diagnostics, refInfoSha, foundReleaseId,
                 releaseUploadUrl, reported>>

\* getChecksums; a file that cannot be read ends the run. Then line 314.
getChecksums ==
  /\ pc = "getChecksums"
  /\ \E readable \in BOOLEAN :
       IF readable \/ Len(artifactPaths) = 0
       THEN /\ checksums' = ChecksumsOf(artifactPaths)
            /\ pc' = IF HasExplicitTag(args) THEN "createTag" ELSE "createRelease"
            /\ UNCHANGED error
       ELSE /\ Throw(E_READ)
            /\ UNCHANGED checksums
  /\ UNCHANGED <<inputs, context, platform, args, releaseTag, previousReleaseTag,
                 previousReleaseRef, commits, idx, parsedCommits, changelog,
                 artifactPaths, diagnostics, refInfoSha, foundReleaseId,
                 releaseUploadUrl, calls, reported>>

(***************************************************************************)
(* createReleaseTag                                                        *)
(***************************************************************************)
\* Lines 315-319: refInfo as main() builds it.
ReleaseTagRefInfo(a) == [ref |-> REFS_TAGS \o a.automaticReleaseTag, sha |-> context.sha]

\* Lines 50, 53-60: the createTag request.
CreateTagRequest(refInfo, message) ==
  [tag |-> Substring(refInfo.ref, 10), message |-> message, object |-> refInfo.sha,
   type |-> "commit"]

\* Line 64: the createRef request, refInfo after line 61.
CreateRefRequest(refInfo, tagSha) == [ref |-> refInfo.ref, sha |-> tagSha]

\* The fallback pointing the ref at the commit, as a lightweight tag would.
UpdateRefRequestToCommit(refInfo, tagSha) ==
  [ref |-> Substring(refInfo.ref, 5), sha |-> refInfo.sha, force |-> TRUE]

\* Lines 66-74: the updateRef request of the fallback.
UpdateRefRequest(refInfo, tagSha) ==
  [ref |-> Substring(refInfo.ref, 5), sha |-> tagSha, force |-> TRUE]

\* The tag a ref request names, when the platform holds a ref for it.
ExistingTagOf(ref) ==
  LET t == PlatformTagOf(ref) IN IF t \in TagNames /\ refs[t] # NONE THEN t ELSE NULL

\* Lines 53-61: the annotated tag object is created.
CreateTag ==
  /\ pc = "createTag"
  /\ \E ok \in BOOLEAN :
       /\ Call("createTag", Answer(ok), NONE)
       /\ IF ok
          THEN /\ tagObjects' = tagObjects \cup
                    {[sha |-> TAG_OBJECT] @@
                     CreateTagRequest(ReleaseTagRefInfo(args), args.tagAnnotation)}
               /\ refInfoSha' = TAG_OBJECT
               /\ pc' = "createRef"
               /\ UNCHANGED error
          ELSE /\ Throw(CallError("createTag"))
               /\ UNCHANGED <<tagObjects, refInfoSha>>
  /\ UNCHANGED <<inputs, context, tagListing, refs, releases, assets, args, releaseTag,
                 previousReleaseTag, previousReleaseRef, commits, idx, parsedCommits,
                 changelog, artifactPaths, checksums, diagnostics, foundReleaseId,
                 releaseUploadUrl, reported>>

\* Lines 63-65: the ref is created; any failure leads to the fallback. The
\* platform refuses a ref that exists, and a ref not of the form refs/tags/<tag>.
CreateRef ==
  /\ pc = "createRef"
  /\ LET req == CreateRefRequest(ReleaseTagRefInfo(args), refInfoSha)
         t == PlatformTagOf(req.ref)
         creatable == StartsWith(req.ref, REFS) /\ t \in TagNames /\ refs[t] = NONE
     IN \E answered \in BOOLEAN :
          /\ Call("createRef",
                  IF ~answered THEN FAILURE
                  ELSE IF ExistingTagOf(req.ref) # NULL THEN EXISTS
                  ELSE IF creatable THEN OK ELSE FAILURE,
                  NONE)
          /\ IF creatable /\ answered
             THEN /\ refs' = [refs EXCEPT ![t] = req.sha]
                  /\ pc' = "getReleaseByTag"
             ELSE /\ pc' = "updateRef"
                  /\ UNCHANGED refs
  /\ UNCHANGED <<inputs, context, tagListing, tagObjects, releases, assets, args,
                 releaseTag, previousReleaseTag, previousReleaseRef, commits, idx,
                 parsedCommits, changelog, artifactPaths, checksums, diagnostics,
                 refInfoSha, foundReleaseId, releaseUploadUrl, error, reported>>

\* Lines 66-74: the existing ref is force-updated; this call is not guarded.
UpdateRef ==
  /\ pc = "updateRef"
  /\ LET req == UpdateRefRequest(ReleaseTagRefInfo(args), refInfoSha)
         t == ExistingTagOf(req.ref)
     IN \E answered \in BOOLEAN :
          /\ Call("updateRef",
                  IF ~answered THEN FAILURE ELSE IF t # NULL THEN OK ELSE NOT_FOUND,
                  NONE)
          /\ IF t # NULL /\ answered
             THEN /\ refs' = [refs EXCEPT ![t] = req.sha]
                  /\ pc' = "getReleaseByTag"
                  /\ UNCHANGED error
             ELSE /\ Throw(CallError("updateRef"))
                  /\ UNCHANGED refs
  /\ UNCHANGED <<inputs, context, tagListing, tagObjects, releases, assets, args,
                 releaseTag, previousReleaseTag, previousReleaseRef, commits, idx,
                 parsedCommits, changelog, artifactPaths, checksums, diagnostics,
                 refInfoSha, foundReleaseId, releaseUploadUrl, reported>>

(***************************************************************************)
(* deletePreviousGitHubRelease                                             *)
(***************************************************************************)
\* The releases of the platform with the given tag.
ReleasesOfTag(t) == {r \in releases : r.tag_name = t}

\* Lines 83-86 and the catch of lines 93-95: the release of the tag is looked
\* up; when the call fails the function returns.
GetReleaseByTag ==
  /\ pc = "getReleaseByTag"
  /\ \E answered \in BOOLEAN :
       LET found == ReleasesOfTag(args.automaticReleaseTag)
       IN IF found # {} /\ answered
          THEN \E r \in found :
                 /\ Call("getReleaseByTag", OK, r.id)
                 /\ foundReleaseId' = r.id
                 /\ pc' = "deleteRelease"
          ELSE /\ Call("getReleaseByTag", IF answered THEN NOT_FOUND ELSE FAILURE, NONE)
               /\ pc' = "createRelease"
               /\ UNCHANGED foundReleaseId
  /\ UNCHANGED <<inputs, context, platform, args, releaseTag, previousReleaseTag,
                 previousReleaseRef, commits, idx, parsedCommits, changelog,
                 artifactPaths, checksums, diagnostics, refInfoSha,
                 releaseUploadUrl, error, reported>>

\* Lines 87-95: the release found is deleted; the same catch takes a failure
\* of this call.
DeleteRelease ==
  /\ pc = "deleteRelease"
  /\ \E ok \in BOOLEAN :
       /\ Call("deleteRelease", Answer(ok), foundReleaseId)
       /\ releases' = IF ok THEN {r \in releases : r.id # foundReleaseId} ELSE releases
  /\ pc' = "createRelease"
  /\ UNCHANGED <<inputs, context, tagListing, refs, tagObjects, assets, args,
                 releaseTag, previousReleaseTag, previousReleaseRef, commits, idx,
                 parsedCommits, changelog, artifactPaths, checksums, diagnostics,
                 refInfoSha, foundReleaseId, releaseUploadUrl, error, reported>>

(***************************************************************************)
(* generateNewGitHubRelease, uploadReleaseArtifacts, the outputs           *)
(***************************************************************************)
\* The title input ignored.
ReleaseNameIsTag(a, tag) == tag

\* Line 330: the title, the tag when no title is given.
ReleaseName(a, tag) == IF a.releaseTitle # EMPTY THEN a.releaseTitle ELSE tag

\* Line 333: the body of the release.
ReleaseBody(log, sums) == log \o <<"\n\n">> \o sums

\* Lines 327-334: the createRelease request.
CreateReleaseRequest(a, tag, log, sums) ==
  [tag_name |-> tag, name |-> ReleaseName(a, tag), draft |-> a.draftRelease,
   prerelease |-> a.preRelease, body |-> ReleaseBody(log, sums)]

NEW_RELEASE_ID == "r1"

\* The upload URL the platform gives the release with the given id.
UploadUrlOf(id) == "upload/" \o id

\* A createRelease that is issued again when it fails.
CreateReleaseRetried ==
  /\ pc = "createRelease"
  /\ \E ok \in BOOLEAN :
       /\ Call("createRelease", Answer(ok), IF ok THEN NEW_RELEASE_ID ELSE NONE)
       /\ IF ok
          THEN /\ releases' = releases \cup
                    {[id |-> NEW_RELEASE_ID, upload_url |-> UploadUrlOf(NEW_RELEASE_ID)] @@
                     CreateReleaseRequest(args, releaseTag, changelog, checksums)}
               /\ releaseUploadUrl' = UploadUrlOf(NEW_RELEASE_ID)
               /\ idx' = 1
               /\ pc' = "upload"
          ELSE UNCHANGED <<releases, releaseUploadUrl, idx, pc>>
  /\ UNCHANGED <<inputs, context, tagListing, refs, tagObjects, assets, args,
                 releaseTag, previousReleaseTag, previousReleaseRef, commits,
                 parsedCommits, changelog, artifactPaths, checksums, diagnostics,
                 refInfoSha, foundReleaseId, error, reported>>

\* Lines 106-108: the release is created and its upload URL kept.
CreateRelease ==
  /\ pc = "createRelease"
  /\ \E ok \in BOOLEAN :
       /\ Call("createRelease", Answer(ok), IF ok THEN NEW_RELEASE_ID ELSE NONE)
       /\ IF ok
          THEN /\ releases' = releases \cup
                    {[id |-> NEW_RELEASE_ID, upload_url |-> UploadUrlOf(NEW_RELEASE_ID)] @@
                     CreateReleaseRequest(args, releaseTag, changelog, checksums)}
               /\ releaseUploadUrl' = UploadUrlOf(NEW_RELEASE_ID)
               /\ idx' = 1
               /\ pc' = "upload"
               /\ UNCHANGED error
          ELSE /\ Throw(CallError("createRelease"))
               /\ UNCHANGED <<releases, releaseUploadUrl, idx>>
  /\ UNCHANGED <<inputs, context, tagListing, refs, tagObjects, assets, args,
                 releaseTag, previousReleaseTag, previousReleaseRef, commits,
                 parsedCommits, changelog, artifactPaths, checksums, diagnostics,
                 refInfoSha, foundReleaseId, reported>>

\* uploadReleaseArtifacts: the artifact at idx is uploaded to the release.
UploadArtifact ==
  /\ pc = "upload"
  /\ idx <= Len(artifactPaths)
  /\ \E ok \in BOOLEAN :
       /\ Call("uploadReleaseAsset", Answer(ok), NONE)
       /\ IF ok
          THEN /\ assets' = Append(assets, [url |-> releaseUploadUrl,
                                            name |-> Basename(artifactPaths[idx])])
               /\ idx' = idx + 1
               /\ UNCHANGED <<pc, error>>
          ELSE /\ Throw(CallError("uploadReleaseAsset"))
               /\ UNCHANGED <<assets, idx>>
  /\ UNCHANGED <<inputs, context, tagListing, refs, tagObjects, releases, args,
                 releaseTag, previousReleaseTag, previousReleaseRef, commits,
                 parsedCommits, changelog, artifactPaths, checksums, diagnostics,
                 refInfoSha, foundReleaseId, releaseUploadUrl, reported>>

\* Lines 339-341: the values a run hands to the steps after it.
ExportedValues(tag, url) ==
  [exported |-> tag, outputs |-> [automatic_releases_tag |-> tag, upload_url |-> url]]

\* The outputs set as soon as the release exists, before the uploads.
ExportOutputsBeforeUploads ==
  /\ pc = "upload"
  /\ exported' = ExportedValues(releaseTag, releaseUploadUrl).exported
  /\ outputs' = ExportedValues(releaseTag, releaseUploadUrl).outputs
  /\ pc' = "done"
  /\ UNCHANGED <<inputs, context, platform, locals, calls, error, failed, rethrown>>

\* Lines 338-341: once every artifact is uploaded the outputs are set.
ExportOutputs ==
  /\ pc = "upload"
  /\ idx > Len(artifactPaths)
  /\ exported' = ExportedValues(releaseTag, releaseUploadUrl).exported
  /\ outputs' = ExportedValues(releaseTag, releaseUploadUrl).outputs
  /\ pc' = "done"
  /\ UNCHANGED <<inputs, context, platform, locals, calls, error, failed, rethrown>>

Next ==
  \/ GetArgs
  \/ DetermineReleaseTags
  \/ ListTags
  \/ GetRef
  \/ CompareCommits
  \/ ListPulls
  \/ RenderChangelog
  \/ getPaths
  \/ getChecksums
  \/ CreateTag
  \/ CreateRef
  \/ UpdateRef
  \/ GetReleaseByTag
  \/ DeleteRelease
  \/ CreateRelease
  \/ UploadArtifact
  \/ ExportOutputs
  \/ Catch

Spec == Init /\ [][Next]_vars

NextSearch == GetArgs \/ DetermineReleaseTags \/ ListTags \/ Catch

SpecSearch == InitSearch /\ [][NextSearch]_vars

\* Longest files input the artifact steps are exercised on.
MaxGlobs == 3

\* The globs a files input is made of.
Globs == {GlobAll, GlobA, GlobB, GlobNothing}

\* The runs of SpecFiles: a static tag and any files input of at most
\* MaxGlobs globs, a glob more than once included.
InitFiles ==
  \E fs \in ListsUpTo(Globs, MaxGlobs) :
    Start([NoArgs EXCEPT !.repoToken = <<"t">>, !.automaticReleaseTag = LATEST,
                         !.isTagStatic = TRUE, !.files = fs],
          [ref |-> BRANCH_REF, sha |-> SHA], <<LATEST>>, {})

\* main() up to the return of getChecksums.
NextFiles ==
  \/ GetArgs
  \/ DetermineReleaseTags
  \/ GetRef
  \/ CompareCommits
  \/ ListPulls
  \/ RenderChangelog
  \/ getPaths
  \/ getChecksums
  \/ Catch

SpecFiles == InitFiles /\ [][NextFiles]_vars

(***************************************************************************)
(* Properties                                                              *)
(***************************************************************************)
Issued(op) == \E i \in 1..Len(calls) : calls[i].op = op

Succeeded(op) == \E i \in 1..Len(calls) : calls[i].op = op /\ calls[i].status = OK

\* The calls that create or move the tag, or delete the prior release.
TagAndDeleteOps == {"createTag", "createRef", "updateRef", "getReleaseByTag", "deleteRelease"}

\* The calls that change the repository.
MutatingOps ==
  {"createTag", "createRef", "updateRef", "deleteRelease", "createRelease",
   "uploadReleaseAsset"}

Ended == pc \in {"catch", "failed"}

\* Semantic-version precedence of two tag names.
Precedes(a, b) == semverCompare(a, b) < 0

\* The positions of the listing that hold a version below the release tag.
LowerTags ==
  {i \in 1..Len(tagListing) :
     SemVerParse(tagListing[i]).ok /\ Precedes(tagListing[i], releaseTag)}

\* C1: once the tags are listed, the previous release tag is a listed tag that
\* is a valid version below the release tag and that no other such tag
\* exceeds; it is empty when the listing holds no valid version below the
\* release tag.
C1_PreviousTagIsGreatestLower ==
  (pc = "getRef" /\ ~args.isTagStatic) =>
    IF LowerTags = {} THEN previousReleaseTag = EMPTY
    ELSE \E i \in LowerTags :
           /\ previousReleaseTag = tagListing[i]
           /\ \A j \in LowerTags : ~Precedes(tagListing[i], tagListing[j])

C1_Witness ==
  /\ pc = "getRef"
  /\ tagListing = <<V110, V100, V101>>
  /\ releaseTag = V110
  /\ previousReleaseTag = V101

\* C2: with is_tag_static false and a release tag that is no valid version
\* the run fails with the semantic-versioning error and has issued none of
\* listTags, the tag calls, deleteRelease, createRelease or an upload; with
\* is_tag_static true no run fails with that error.
C2_NonSemverTagFailsDynamicOnly ==
  /\ (/\ pc \notin {"getArgs", "releaseTag"}
      /\ inputs.repoToken # EMPTY
      /\ ~inputs.isTagStatic
      /\ releaseTag # EMPTY
      /\ ~SemVerParse(releaseTag).ok)
       => /\ Ended
          /\ error = E_NOT_SEMVER
          /\ \A i \in 1..Len(calls) : calls[i].op \notin MutatingOps \cup {"listTags"}
  /\ inputs.isTagStatic => error # E_NOT_SEMVER

C2_Witness ==
  /\ pc = "failed"
  /\ ~inputs.isTagStatic
  /\ releaseTag = LATEST
  /\ error = E_NOT_SEMVER
  /\ calls = <<>>

\* C3: the release tag is the explicit tag when one is given, otherwise the
\* tag of a triggering ref refs/tags/<tag>; when there is neither the run
\* fails before any platform call.
C3_ReleaseTagSource ==
  (pc \notin {"getArgs", "releaseTag"} /\ inputs.repoToken # EMPTY) =>
    /\ inputs.automaticReleaseTag # EMPTY => releaseTag = inputs.automaticReleaseTag
    /\ (inputs.automaticReleaseTag = EMPTY /\ releaseTag # EMPTY)
         => context.ref = REFS_TAGS \o releaseTag
    /\ (inputs.automaticReleaseTag = EMPTY /\ context.ref = BRANCH_REF)
         => releaseTag = EMPTY
    /\ releaseTag = EMPTY => (Ended /\ error = E_NO_TAG /\ calls = <<>>)

C3_Witness ==
  /\ pc = "failed"
  /\ inputs.automaticReleaseTag = EMPTY
  /\ context.ref = BRANCH_REF
  /\ error = E_NO_TAG
  /\ calls = <<>>

\* C4: a run without an explicit tag issues no tag call and no call on the
\* prior release; in a run with an explicit tag every such call precedes
\* createRelease, and createRelease is issued only after the tag was created
\* and the prior release looked up.
C4_TagCallsOnlyWithExplicitTag ==
  /\ inputs.automaticReleaseTag = EMPTY
       => \A i \in 1..Len(calls) : calls[i].op \notin TagAndDeleteOps
  /\ \A i, j \in 1..Len(calls) :
       (calls[i].op = "createRelease" /\ calls[j].op \in TagAndDeleteOps) => j < i
  /\ (inputs.automaticReleaseTag # EMPTY /\ Issued("createRelease"))
       => (Succeeded("createTag") /\ Issued("getReleaseByTag"))

C4_Witness ==
  /\ pc = "done"
  /\ inputs.automaticReleaseTag = LATEST
  /\ Succeeded("updateRef")
  /\ Succeeded("deleteRelease")
  /\ Succeeded("createRelease")

\* C5: a createRef refused because the ref exists is followed by the forced
\* updateRef of tags/<tag>; once createReleaseTag has returned the tag ref
\* points at the tag object createTag made for the commit of the run; a failed
\* createTag or updateRef is the last call of the run.
C5_TagRefPointsAtTagObject ==
  /\ \A i \in 1..Len(calls) :
       (calls[i].op = "createRef" /\ calls[i].status = EXISTS)
         => IF i < Len(calls) THEN calls[i + 1].op = "updateRef" ELSE pc = "updateRef"
  /\ Issued("getReleaseByTag")
       => /\ refs[inputs.automaticReleaseTag] = TAG_OBJECT
          /\ \E o \in tagObjects :
               /\ o.sha = TAG_OBJECT
               /\ o.tag = inputs.automaticReleaseTag
               /\ o.object = context.sha
               /\ o.type = "commit"
  /\ \A i \in 1..Len(calls) :
       (calls[i].op \in {"createTag", "updateRef"} /\ calls[i].status # OK)
         => (i = Len(calls) /\ Ended)

C5_Witness ==
  /\ pc = "done"
  /\ \E i \in 1..Len(calls) : calls[i].op = "createRef" /\ calls[i].status = EXISTS
  /\ Succeeded("updateRef")
  /\ refs[LATEST] = TAG_OBJECT

\* C6: when the lookup of the release of the explicit tag answers not found,
\* no deleteRelease is issued and the run goes on to createRelease; and when
\* the lookup answered with a release, that release is gone from the
\* repository by the time createRelease is issued.
C6_PriorReleaseDeletedBeforeCreate ==
  /\ \A i \in 1..Len(calls) :
       (calls[i].op = "getReleaseByTag" /\ calls[i].status = NOT_FOUND)
         => (~Issued("deleteRelease") /\ (i = Len(calls) => pc = "createRelease"))
  /\ \A i \in 1..Len(calls) :
       (calls[i].op = "getReleaseByTag" /\ calls[i].status = OK /\ Issued("createRelease"))
         => \A r \in releases : r.id # calls[i].target

\* The failures the run is documented to recover from.
Recovered(c) ==
  \/ c.op = "getRef"
  \/ c.op = "compareCommits"
  \/ c.op = "getReleaseByTag" /\ c.status = NOT_FOUND
  \/ c.op = "createRef" /\ c.status = EXISTS

\* C7: a failed platform call that is none of the documented recoveries is
\* the last call of the run, and the run ends as failed.
C7_OtherFailuresAreFatal ==
  \A i \in 1..Len(calls) :
    (calls[i].status # OK /\ ~Recovered(calls[i])) => (i = Len(calls) /\ Ended)

\* The error of a run that ended came from its last call, or from a step that
\* calls nothing.
ErrorIsOfLastCall ==
  \/ error \in {E_REPO_TOKEN, E_NO_TAG} /\ calls = <<>>
  \/ error = E_NOT_SEMVER /\ calls = <<>>
  \/ error = E_READ /\ \A i \in 1..Len(calls) : calls[i].op \notin MutatingOps
  \/ /\ calls # <<>>
     /\ calls[Len(calls)].status # OK
     /\ error = CallError(calls[Len(calls)].op)

\* C8: when a run has failed, the call that failed is the last call issued,
\* the failure was reported once with the message of the error, which was
\* thrown again, the tag ref set in the run still points at the tag object,
\* and a release deleted in the run is still absent.
C8_FailureStopsWithoutRollback ==
  /\ pc = "catch" => (failed = <<>> /\ ~rethrown /\ ErrorIsOfLastCall)
  /\ pc = "failed" => (failed = <<error>> /\ rethrown /\ ErrorIsOfLastCall)
  /\ ~Ended => (failed = <<>> /\ ~rethrown /\ error = NONE)
  /\ Ended
       => /\ (Succeeded("createRef") \/ Succeeded("updateRef"))
               => refs[inputs.automaticReleaseTag] = TAG_OBJECT
          /\ \A i \in 1..Len(calls) :
               (calls[i].op = "deleteRelease" /\ calls[i].status = OK)
                 => \A r \in releases : r.id # calls[i].target

C8_Witness ==
  /\ pc = "failed"
  /\ error = CallError("uploadReleaseAsset")
  /\ Succeeded("updateRef")
  /\ Succeeded("deleteRelease")
  /\ refs[LATEST] = TAG_OBJECT
  /\ PriorRelease(LATEST) \notin releases

\* The release the run created.
NewReleases == {r \in releases : r.id = NEW_RELEASE_ID}

\* C9: the release created carries the release tag, the title input or else
\* the tag as its name, the draft and prerelease inputs, and as its body the
\* changelog, a blank line and the checksums.
C9_ReleaseParameters ==
  /\ Succeeded("createRelease") => NewReleases # {}
  /\ \A r \in NewReleases :
       /\ r.tag_name = releaseTag
       /\ r.name = (IF inputs.releaseTitle # EMPTY THEN inputs.releaseTitle ELSE releaseTag)
       /\ r.draft = inputs.draftRelease
       /\ r.prerelease = inputs.preRelease
       /\ Len(r.body) = Len(changelog) + 1 + Len(checksums)
       /\ SubSeq(r.body, 1, Len(changelog)) = changelog
       /\ r.body[Len(changelog) + 1] = "\n\n"
       /\ SubSeq(r.body, Len(changelog) + 2, Len(r.body)) = checksums

C9_Witness ==
  /\ pc = "done"
  /\ \E r \in NewReleases :
       /\ r.name = TITLE
       /\ r.tag_name = V110
       /\ r.draft
       /\ ~r.prerelease
       /\ Len(changelog) > 0

\* C10: the outputs and the exported variable are set only in a run that
\* created its release and uploaded every artifact; they then hold the release
\* tag and the upload URL of the release created; a run that ended as failed
\* has set none of them.
C10_OutputsOnlyAfterSuccess ==
  /\ (outputs # NoOutputs \/ exported # NULL)
       => /\ pc = "done"
          /\ Len(assets) = Len(artifactPaths)
          /\ \A i \in 1..Len(calls) : calls[i].op = "uploadReleaseAsset" => calls[i].status = OK
          /\ exported = releaseTag
          /\ outputs.automatic_releases_tag = releaseTag
          /\ \E r \in NewReleases : outputs.upload_url = r.upload_url
  /\ pc = "done" => (outputs # NoOutputs /\ exported # NULL)
  /\ Ended => (outputs = NoOutputs /\ exported = NULL)

C10_Witness ==
  /\ pc = "done"
  /\ Len(assets) = 2
  /\ outputs.automatic_releases_tag = V110
  /\ outputs.upload_url = "upload/r1"

\* The steps of main() that follow the return of getChecksums.
ChecksumsReturned ==
  pc \in {"createTag", "createRef", "updateRef", "getReleaseByTag", "deleteRelease",
          "createRelease", "upload", "done"}

\* The lines of a rendered checksum section between its opening and its
\* closing fence.
FencedLines(markdown) ==
  LET parts == Split(SubSeq(markdown, 7, Len(markdown) - 1), "\n")
  IN SubSeq(parts, 1, Len(parts) - 1)

\* C11: once getChecksums has returned, an empty artifact list has given the
\* empty text, with no header and no fence, and a list that is not empty has
\* given the header, the opening fence, one line "<digest>  <basename>" for
\* each path in the order of the list, and the closing fence.
C11_ChecksumSectionOnlyForArtifacts ==
  ChecksumsReturned =>
    IF artifactPaths = <<>>
    THEN checksums = <<>>
    ELSE /\ SubSeq(checksums, 1, 6) = <<"## Checksums", "\n", "sha256", "\n", FENCE, "\n">>
         /\ checksums[Len(checksums)] = FENCE
         /\ Len(FencedLines(checksums)) = Len(artifactPaths)
         /\ \A k \in 1..Len(artifactPaths) :
              FencedLines(checksums)[k]
                = <<Sha256Hex(ContentOf(artifactPaths[k])), "  ">> \o Basename(artifactPaths[k])

\* The steps of main() that follow the return of getPaths.
PathsResolved == pc = "getChecksums" \/ ChecksumsReturned \/ (Ended /\ error = E_READ)

\* The files the globs of the input match, taken together.
MatchedFiles(files) ==
  UNION {{Globby(files[i])[k] : k \in 1..Len(Globby(files[i]))} : i \in 1..Len(files)}

\* C12: once getPaths has returned, the path list holds no path twice and
\* its paths are exactly the files the globs of the input match; each glob
\* that matches nothing has an error diagnostic, has left the paths gathered
\* before it as they were, and has not ended the run.
C12_PathsAreUnionWithoutDuplicates ==
  PathsResolved =>
    /\ Distinct(artifactPaths)
    /\ {artifactPaths[k] : k \in 1..Len(artifactPaths)} = MatchedFiles(args.files)
    /\ \A i \in 1..Len(args.files) :
         Globby(args.files[i]) = <<>> =>
           /\ \E d \in 1..Len(diagnostics) : diagnostics[d] = args.files[i]
           /\ PathsOf(SubSeq(args.files, 1, i)) = PathsOf(SubSeq(args.files, 1, i - 1))
    /\ \A d \in 1..Len(diagnostics) :
         \E i \in 1..Len(args.files) :
           args.files[i] = diagnostics[d] /\ Globby(args.files[i]) = <<>>
    /\ error \in {NONE, E_READ}

\* getPaths has returned two paths, the second glob having matched nothing
\* and the third one a file the first had matched.
C12_Witness ==
  /\ pc = "getChecksums"
  /\ args.files = <<GlobB, GlobNothing, GlobAll>>
  /\ artifactPaths = <<PathB, PathA>>
  /\ diagnostics = <<GlobNothing>>

\* The calls that create or move the tag of the release.
TagOps == {"createTag", "createRef", "updateRef"}

\* C13: in a run with a static tag that has determined its release tag, the
\* previous release tag is the automatic_release_tag input and the tags are
\* never listed; the ref lookup and the comparison come before every call
\* that creates or moves the tag, so that up to the comparison every tag is
\* where the run found it; and a lookup that found the ref has made the tag
\* the base of the comparison.
C13_StaticTagIsItsOwnPrevious ==
  (inputs.isTagStatic /\ pc \notin {"getArgs", "releaseTag"}
                      /\ error \notin {E_REPO_TOKEN, E_NO_TAG}) =>
    /\ previousReleaseTag = inputs.automaticReleaseTag
    /\ ~Issued("listTags")
    /\ \A i, j \in 1..Len(calls) :
         (calls[i].op \in {"getRef", "compareCommits"} /\ calls[j].op \in TagOps) => i < j
    /\ pc \in {"getRef", "compareCommits", "getChangelog"} =>
         /\ tagObjects = {}
         /\ \A t \in TagNames :
              refs[t] = IF \E k \in 1..Len(tagListing) : tagListing[k] = t
                        THEN OLD_COMMIT ELSE NONE
    /\ \A i \in 1..Len(calls) :
         (calls[i].op = "getRef" /\ calls[i].status = OK) =>
           previousReleaseRef = inputs.automaticReleaseTag

\* A run with the static tag latest has compared from the tag, found where
\* the previous release left it, and has then moved the tag.
C13_Witness ==
  /\ pc = "done"
  /\ inputs.isTagStatic
  /\ inputs.automaticReleaseTag = LATEST
  /\ previousReleaseTag = LATEST
  /\ previousReleaseRef = LATEST
  /\ commits = History
  /\ Succeeded("getRef")
  /\ Succeeded("compareCommits")
  /\ Succeeded("updateRef")
  /\ refs[LATEST] = TAG_OBJECT

\* C14: a comparison that failed has left the commit list empty, whatever
\* the ref lookup before it answered, and is not what ends the run: the run
\* goes on to the changelog, with no commit parsed, and to the steps after.
C14_FailedComparisonGivesNoCommits ==
  \A i \in 1..Len(calls) :
    (calls[i].op = "compareCommits" /\ calls[i].status # OK) =>
      /\ commits = <<>>
      /\ parsedCommits = <<>>
      /\ ~Issued("listPullRequestsAssociatedWithCommit")
      /\ error # CallError("compareCommits")
      /\ i = Len(calls) =>
           \/ pc \in {"getChangelog", "getPaths", "getChecksums", "createTag",
                      "createRelease"}
           \/ Ended /\ error = E_READ

\* The ref lookup found the previous tag, the comparison failed, and the run
\* has created the release.
C14_Witness ==
  /\ pc = "done"
  /\ \E i \in 1..Len(calls) : calls[i].op = "getRef" /\ calls[i].status = OK
  /\ \E i \in 1..Len(calls) : calls[i].op = "compareCommits" /\ calls[i].status = FAILURE
  /\ commits = <<>>
  /\ Succeeded("createRelease")
  /\ NewReleases # {}

\* C15: a lookup of the previous tag's ref that failed, the ref missing or
\* the call failing otherwise, has made HEAD the base of the comparison and
\* is not what ends the run; a lookup that found the ref has made the
\* previous release tag the base; either way the comparison is next.
C15_RefLookupChoosesBase ==
  \A i \in 1..Len(calls) :
    calls[i].op = "getRef" =>
      /\ calls[i].status # OK => (previousReleaseRef = HEAD /\ error # CallError("getRef"))
      /\ calls[i].status = OK => previousReleaseRef = previousReleaseTag
      /\ i = Len(calls) => pc = "compareCommits"

\* The previous tag's ref was not found, the comparison from HEAD answered
\* and the run has finished.
C15_Witness ==
  /\ pc = "done"
  /\ \E i \in 1..Len(calls) : calls[i].op = "getRef" /\ calls[i].status = NOT_FOUND
  /\ previousReleaseRef = HEAD
  /\ Succeeded("compareCommits")
  /\ commits = History
  /\ NewReleases # {}

\* C16: in a run that resolves the previous tag dynamically and has listed
\* no valid version below the release tag, the previous release tag is
\* empty and every comparison is made from HEAD, the base that stands for no
\* previous release, never from a base taken from the empty tag name.
C16_FirstReleaseComparesFromSentinel ==
  (~inputs.isTagStatic /\ Succeeded("listTags") /\ LowerTags = {}) =>
    /\ previousReleaseTag = EMPTY
    /\ Issued("compareCommits") => previousReleaseRef = HEAD

\* The commits of a list that the parser does not take for merge commits, in
\* the order of the list.
NonMergeCommits(list) == SelectSeq(list, LAMBDA c : ~IsMergeCommit(c.message))

\* The commits the parsed commits were made from.
CommitsParsed == [k \in 1..Len(parsedCommits) |-> parsedCommits[k].extra.commit]

\* C17: during the loop of getChangelog the parsed commits are those of the
\* commits gone through that are not merge commits, in their order; the list
\* handed to the renderer when the loop is over is made of exactly the
\* commits of the comparison that are not merge commits, in their order,
\* and holds no merge commit.
C17_OnlyNonMergeCommitsRendered ==
  /\ pc = "getChangelog" => CommitsParsed = NonMergeCommits(SubSeq(commits, 1, idx - 1))
  /\ ((pc = "getChangelog" /\ idx > Len(commits)) \/ pc = "getPaths" \/ PathsResolved) =>
       /\ CommitsParsed = NonMergeCommits(commits)
       /\ \A k \in 1..Len(parsedCommits) : ~IsMergeCommit(parsedCommits[k].header)

\* Of three commits, the second a merge commit, the first and the third are
\* handed to the renderer.
C17_Witness ==
  /\ pc = "getPaths"
  /\ commits = History
  /\ IsMergeCommit(commits[2].message)
  /\ Len(parsedCommits) = 2
  /\ parsedCommits[1].extra.commit.sha = "s1"
  /\ parsedCommits[2].extra.commit.sha = "s3"

\* The place of a step of main() in the order of its phases.
PhaseOf(step) ==
  CASE step = "getArgs" -> 0
    [] step = "releaseTag" -> 1
    [] step = "listTags" -> 2
    [] step = "getRef" -> 3
    [] step = "compareCommits" -> 4
    [] step = "getChangelog" -> 5
    [] step = "getPaths" -> 6
    [] step = "getChecksums" -> 7
    [] step = "createTag" -> 8
    [] step = "createRef" -> 9
    [] step = "updateRef" -> 10
    [] step = "getReleaseByTag" -> 11
    [] step = "deleteRelease" -> 12
    [] step = "createRelease" -> 13
    [] step = "upload" -> 14
    [] step = "done" -> 15
    [] step = "catch" -> 16
    [] step = "failed" -> 17

\* The place of a platform call in the order of the phases.
PhaseOfCall(op) ==
  CASE op = "listTags" -> 2
    [] op = "getRef" -> 3
    [] op = "compareCommits" -> 4
    [] op = "listPullRequestsAssociatedWithCommit" -> 5
    [] op = "createTag" -> 8
    [] op = "createRef" -> 9
    [] op = "updateRef" -> 10
    [] op = "getReleaseByTag" -> 11
    [] op = "deleteRelease" -> 12
    [] op = "createRelease" -> 13
    [] op = "uploadReleaseAsset" -> 14

\* The calls that are issued once for each item of a list.
PerItemOps == {"listPullRequestsAssociatedWithCommit", "uploadReleaseAsset"}

\* The calls so far are in the order of the phases; only a per-item call is
\* issued more than once, at most once for each item; the tag and
\* prior-release calls occur only for an explicit tag; the outputs are
\* exported only at the end.
CallsInPhaseOrder ==
  /\ \A i, j \in 1..Len(calls) :
       i < j => /\ PhaseOfCall(calls[i].op) <= PhaseOfCall(calls[j].op)
                /\ calls[i].op = calls[j].op => calls[i].op \in PerItemOps
  /\ Cardinality({i \in 1..Len(calls) :
                    calls[i].op = "listPullRequestsAssociatedWithCommit"}) <= Len(commits)
  /\ Cardinality({i \in 1..Len(calls) : calls[i].op = "uploadReleaseAsset"})
       <= Len(artifactPaths)
  /\ (\E i \in 1..Len(calls) : calls[i].op \in TagAndDeleteOps) =>
       inputs.automaticReleaseTag # EMPTY
  /\ outputs # NoOutputs => pc = "done"

\* A step of the run moves to a later phase, or stays in a per-item phase
\* and moves to its next item.
PhaseAdvances ==
  \/ PhaseOf(pc') > PhaseOf(pc)
  \/ /\ pc' = pc
     /\ pc \in {"getChangelog", "upload"}
     /\ idx' = idx + 1

\* C18: the phases of a run come strictly one after the other and none is
\* gone through again: every step moves to a later phase or to the next item
\* of a per-item phase, the calls are issued in the order previous tag,
\* commit range, changelog, tag create or update, prior-release deletion,
\* release creation, uploads, and createTag, createRelease and deleteRelease,
\* like every call that is not per item, are issued at most once.
C18_PhasesInSequence == [](CallsInPhaseOrder) /\ [][PhaseAdvances]_vars

\* A run that went through every phase: tags listed, ref found, three
\* commits, tag created, prior release deleted, release created, two
\* artifacts uploaded, outputs exported.
C18_Witness ==
  /\ pc = "done"
  /\ outputs # NoOutputs
  /\ [k \in 1..Len(calls) |-> calls[k].op]
       = <<"listTags", "getRef", "compareCommits",
           "listPullRequestsAssociatedWithCommit",
           "listPullRequestsAssociatedWithCommit",
           "listPullRequestsAssociatedWithCommit",
           "createTag", "createRef", "getReleaseByTag", "deleteRelease",
           "createRelease", "uploadReleaseAsset", "uploadReleaseAsset">>
  /\ \A k \in 1..Len(calls) : calls[k].status = OK

\* The steps of main() that come before its first mutation of the platform.
ReadSteps ==
  {"getArgs", "releaseTag", "listTags", "getRef", "compareCommits", "getChangelog",
   "getPaths", "getChecksums"}

\* The errors those steps end the run with.
ReadErrors ==
  {E_REPO_TOKEN, E_NO_TAG, E_NOT_SEMVER, E_READ, CallError("listTags"),
   CallError("listPullRequestsAssociatedWithCommit")}

\* The repository holds the tags and the releases the run found, and no
\* call that changes it has been issued.
RepositoryUntouched ==
  /\ \A i \in 1..Len(calls) : calls[i].op \notin MutatingOps
  /\ tagObjects = {}
  /\ \A t \in TagNames :
       refs[t] = IF \E k \in 1..Len(tagListing) : tagListing[k] = t
                 THEN OLD_COMMIT ELSE NONE
  /\ \A r \in releases : r.id # NEW_RELEASE_ID
  /\ assets = <<>>

\* C19: while the run is in a step before its first mutation, and when one
\* of those steps has ended it, the repository is untouched; and once a
\* mutating call is issued the release tag is determined, the pull requests
\* of every commit were looked up with success, the paths are those of the
\* globs and the checksums those of the paths.
C19_MutationsOnlyAfterReads ==
  /\ (pc \in ReadSteps \/ (Ended /\ error \in ReadErrors)) => RepositoryUntouched
  /\ (\E i \in 1..Len(calls) : calls[i].op \in MutatingOps) =>
       /\ error \notin ReadErrors
       /\ releaseTag # EMPTY
       /\ Issued("getRef") /\ Issued("compareCommits")
       /\ ~inputs.isTagStatic => Succeeded("listTags")
       /\ Cardinality({i \in 1..Len(calls) :
                         /\ calls[i].op = "listPullRequestsAssociatedWithCommit"
                         /\ calls[i].status = OK}) = Len(commits)
       /\ artifactPaths = PathsOf(args.files)
       /\ checksums = ChecksumsOf(artifactPaths)

\* A run with an explicit tag whose pull requests were looked up and whose
\* paths were resolved has ended on a file it could not read, the tag where
\* it was and the prior release in place.
C19_Witness ==
  /\ pc = "failed"
  /\ error = E_READ
  /\ inputs.automaticReleaseTag = LATEST
  /\ commits = History
  /\ artifactPaths = <<PathA, PathB>>
  /\ refs[LATEST] = OLD_COMMIT
  /\ releases = {PriorRelease(LATEST)}
  /\ calls # <<>>

====
